---- MODULE Spec2Model ----
(***************************************************************************)
(* Model of esp32_nerf_turret_gun.ino: the non-blocking fire controller.   *)
(* One iteration of loop() is two steps: server.handleClient() dispatches  *)
(* at most one pending request to its handler, then the three timer        *)
(* checks run.  millis() is the variable clock; the time that passes       *)
(* between two iterations is added when handleClient is entered.           *)
(***************************************************************************)
EXTENDS Integers, Sequences, FiniteSets, TLC

\* ------------------------------------------------------------ constants
MOTOR_RUN_TIME == 2000
FIRE_INTERVAL == 500
TRIGGER_PRESS_TIME == 200

\* triggerServo.write() angles used by the sketch
REST_ANGLE == 0
FIRE_ANGLE == 90

\* ------------------------------------------------------------ bounds
\* millis() is followed up to MaxTime
MaxTime == 2200
\* the time that may pass between two iterations of loop()
Steps == {0, 100, 500, 2100}
\* unsigned long is 32 bits wide on the ESP32: millis() counts modulo 2^32.  The
\* model keeps the modular arithmetic at a reduced width.
ClockModulus == 4096
\* SpecWrap starts this long before millis() wraps around
WrapLead == 1100
\* values of the "mode" argument of /continuous
Modes == {"start", "stop", "toggle"}

VARIABLES
    clock,                  \* millis()
    uptime,                 \* history: the time that has really passed since Init
    pc,                     \* position in loop(): "handleClient" | "timers"
    motorsRunning,
    motorStartTime,
    continuousMode,
    isFiring,
    lastFireTime,
    triggerPressStartTime,
    triggerPressed,
    servo,                  \* last angle written to triggerServo
    pins,                   \* levels of <<MOTOR1_A, MOTOR1_B, MOTOR2_A, MOTOR2_B>>
    req,                    \* the request this iteration's handleClient dispatched
    sent,                   \* responses sent by server.send() in this iteration
    lastCmd,                \* history: the last command dispatched (/fire, /continuous, /stop)
    before,                 \* history: the flags lastCmd's handler found
    contPulse,              \* history: a pulse has started since Continuous mode was entered
    armed                   \* history: the uptime at which each timestamp was last set

ctlvars == <<motorsRunning, motorStartTime, continuousMode, isFiring, lastFireTime,
             triggerPressStartTime, triggerPressed, servo, pins>>
vars == <<clock, pc, req, motorsRunning, motorStartTime, continuousMode, isFiring,
          lastFireTime, triggerPressStartTime, triggerPressed, servo, pins, sent,
          lastCmd, before, contPulse, uptime, armed>>

\* ------------------------------------------------------------ the sketch's state as a value
Ctl ==
    [motorsRunning |-> motorsRunning, motorStartTime |-> motorStartTime,
     continuousMode |-> continuousMode, isFiring |-> isFiring,
     lastFireTime |-> lastFireTime,
     triggerPressStartTime |-> triggerPressStartTime,
     triggerPressed |-> triggerPressed, servo |-> servo, pins |-> pins,
     sent |-> sent]

SetCtl(s) ==
    /\ motorsRunning' = s.motorsRunning
    /\ motorStartTime' = s.motorStartTime
    /\ continuousMode' = s.continuousMode
    /\ isFiring' = s.isFiring
    /\ lastFireTime' = s.lastFireTime
    /\ triggerPressStartTime' = s.triggerPressStartTime
    /\ triggerPressed' = s.triggerPressed
    /\ servo' = s.servo
    /\ pins' = s.pins
    /\ sent' = s.sent

\* the mode flags, as a request handler finds them
Flags ==
    [continuousMode |-> continuousMode, motorsRunning |-> motorsRunning,
     triggerPressed |-> triggerPressed]

\* mutant: the subtraction is done without wrapping around
Elapsed_NoWrap(now, ref) == now - ref

\* unsigned long subtraction millis() - reference
Elapsed(now, ref) == (now - ref) % ClockModulus

\* ------------------------------------------------------------ actuation
runMotors(s) == [s EXCEPT !.pins = <<"HIGH", "LOW", "HIGH", "LOW">>]

stopMotors(s) == [s EXCEPT !.pins = <<"LOW", "LOW", "LOW", "LOW">>]

fireSingleShot(s, now) ==
    [s EXCEPT !.servo = FIRE_ANGLE,
              !.triggerPressed = TRUE,
              !.triggerPressStartTime = now]

send(s, code, type, body) == [s EXCEPT !.sent = Append(@, <<code, type, body>>)]

\* ------------------------------------------------------------ request handlers
\* the control page handleRoot builds in html
ROOT_PAGE ==
    "<!DOCTYPE html><html><head><title>Nerf Turret Control</title><style>body { font-family: Arial; text-align: center; margin: 50px; }button { padding: 20px; margin: 10px; font-size: 18px; }.fire-button { background-color: red; color: white; font-size: 24px; }</style></head><body><h1>Nerf Turret Control</h1><button class='fire-button' onclick='singleFire()'>SINGLE FIRE</button><br><br><button class='fire-button' onclick='toggleContinuous()' id='continuousBtn'>START CONTINUOUS</button><br><br><button onclick='stopFiring()' style='background-color: orange; color: white;'>STOP FIRING</button><p>Motors: <span id='motorStatus'>Stopped</span></p><p>Fire Mode: <span id='fireMode'>Single</span></p><script>let continuousMode = false;function singleFire() { fetch('/fire'); document.getElementById('motorStatus').textContent = 'Single Fire!'; document.getElementById('fireMode').textContent = 'Single'; setTimeout(() => { document.getElementById('motorStatus').textContent = 'Stopped'; }, 2000); }function toggleContinuous() { if (!continuousMode) { continuousMode = true; document.getElementById('continuousBtn').textContent = 'STOP CONTINUOUS'; document.getElementById('continuousBtn').style.backgroundColor = 'darkred'; document.getElementById('motorStatus').textContent = 'Continuous Fire!'; document.getElementById('fireMode').textContent = 'Continuous'; fetch('/continuous?mode=start'); } else { stopContinuous(); } }function stopContinuous() { continuousMode = false; document.getElementById('continuousBtn').textContent = 'START CONTINUOUS'; document.getElementById('continuousBtn').style.backgroundColor = 'red'; document.getElementById('motorStatus').textContent = 'Stopped'; document.getElementById('fireMode').textContent = 'Single'; fetch('/continuous?mode=stop'); }function stopFiring() { if (continuousMode) { stopContinuous(); } fetch('/stop').then(() => { document.getElementById('motorStatus').textContent = 'Stopped'; }); }</script></body></html>"

handleRoot(s) == send(s, 200, "text/html", ROOT_PAGE)

\* mutant: the fire command starts the motors without restarting their timer
handleFire_StaleStart(s, now) ==
    LET s1 == runMotors(s)
        s2 == [s1 EXCEPT !.motorsRunning = TRUE]
        s3 == fireSingleShot(s2, now)
    IN  send(s3, 200, "text/plain", "SINGLE FIRE!")

handleFire(s, now) ==
    LET s1 == runMotors(s)
        s2 == [s1 EXCEPT !.motorsRunning = TRUE, !.motorStartTime = now]
        s3 == fireSingleShot(s2, now)
    IN  send(s3, 200, "text/plain", "SINGLE FIRE!")

\* mutant: the start command also pulls the trigger
ContinuousStart_FiresNow(s, now) ==
    LET s1 == [s EXCEPT !.continuousMode = TRUE, !.isFiring = TRUE]
        s2 == runMotors(s1)
        s3 == [s2 EXCEPT !.motorsRunning = TRUE,
                         !.motorStartTime = now,
                         !.lastFireTime = now]
    IN  send(fireSingleShot(s3, now), 200, "text/plain", "CONTINUOUS FIRE STARTED")

ContinuousStart(s, now) ==
    LET s1 == [s EXCEPT !.continuousMode = TRUE, !.isFiring = TRUE]
        s2 == runMotors(s1)
        s3 == [s2 EXCEPT !.motorsRunning = TRUE,
                         !.motorStartTime = now,
                         !.lastFireTime = now]
    IN  send(s3, 200, "text/plain", "CONTINUOUS FIRE STARTED")

\* mutant: the stop command stops the motors but leaves the mode flags set
ContinuousStop_ModeKept(s) ==
    LET s2 == stopMotors(s)
        s3 == [s2 EXCEPT !.motorsRunning = FALSE]
    IN  send(s3, 200, "text/plain", "CONTINUOUS FIRE STOPPED")

\* mutant: the stop command also clears the fire-interval reference
ContinuousStop_ClearsTimer(s) ==
    LET s1 == [s EXCEPT !.continuousMode = FALSE, !.isFiring = FALSE,
                        !.lastFireTime = 0]
        s2 == stopMotors(s1)
        s3 == [s2 EXCEPT !.motorsRunning = FALSE]
    IN  send(s3, 200, "text/plain", "CONTINUOUS FIRE STOPPED")

\* mutant: the stop command also releases the trigger, as handleStop does
ContinuousStop_Releases(s) ==
    LET s1 == [s EXCEPT !.continuousMode = FALSE, !.isFiring = FALSE]
        s2 == stopMotors(s1)
        s3 == [s2 EXCEPT !.motorsRunning = FALSE,
                         !.servo = REST_ANGLE,
                         !.triggerPressed = FALSE]
    IN  send(s3, 200, "text/plain", "CONTINUOUS FIRE STOPPED")

ContinuousStop(s) ==
    LET s1 == [s EXCEPT !.continuousMode = FALSE, !.isFiring = FALSE]
        s2 == stopMotors(s1)
        s3 == [s2 EXCEPT !.motorsRunning = FALSE]
    IN  send(s3, 200, "text/plain", "CONTINUOUS FIRE STOPPED")

\* mutant: a request without mode is treated as a stop request
MissingMode_Stops(s) ==
    send([stopMotors(s) EXCEPT !.continuousMode = FALSE, !.isFiring = FALSE,
                               !.motorsRunning = FALSE],
         400, "text/plain", "Missing mode parameter")

MissingMode(s) == send(s, 400, "text/plain", "Missing mode parameter")

handleContinuous(s, now, hasArg, mode) ==
    IF hasArg
    THEN IF mode = "start" THEN ContinuousStart(s, now)
         ELSE IF mode = "stop" THEN ContinuousStop(s)
         ELSE s
    ELSE MissingMode(s)

\* mutant: the emergency stop leaves the trigger where it is
handleStop_NoRelease(s) ==
    LET s1 == [s EXCEPT !.continuousMode = FALSE, !.isFiring = FALSE]
        s2 == stopMotors(s1)
        s3 == [s2 EXCEPT !.motorsRunning = FALSE]
    IN  send(s3, 200, "text/plain", "STOPPED")

\* mutant: the emergency stop leaves the continuous-fire flags set
handleStop_ModeKept(s) ==
    LET s2 == stopMotors(s)
        s3 == [s2 EXCEPT !.motorsRunning = FALSE,
                         !.servo = REST_ANGLE,
                         !.triggerPressed = FALSE]
    IN  send(s3, 200, "text/plain", "STOPPED")

handleStop(s) ==
    LET s1 == [s EXCEPT !.continuousMode = FALSE, !.isFiring = FALSE]
        s2 == stopMotors(s1)
        s3 == [s2 EXCEPT !.motorsRunning = FALSE,
                         !.servo = REST_ANGLE,
                         !.triggerPressed = FALSE]
    IN  send(s3, 200, "text/plain", "STOPPED")

\* ------------------------------------------------------------ the timer checks of loop()
FireDue(s, now) ==
    s.continuousMode /\ s.isFiring /\ Elapsed(now, s.lastFireTime) > FIRE_INTERVAL

ContinuousFireCheck(s, now) ==
    IF FireDue(s, now)
    THEN [fireSingleShot(s, now) EXCEPT !.lastFireTime = now]
    ELSE s

\* mutant: the trigger is released as soon as the press time is reached
ReleaseDue_AtLeast(s, now) ==
    s.triggerPressed /\ Elapsed(now, s.triggerPressStartTime) >= TRIGGER_PRESS_TIME

ReleaseDue(s, now) ==
    s.triggerPressed /\ Elapsed(now, s.triggerPressStartTime) > TRIGGER_PRESS_TIME

TriggerReleaseCheck(s, now) ==
    IF ReleaseDue(s, now)
    THEN [s EXCEPT !.servo = REST_ANGLE, !.triggerPressed = FALSE]
    ELSE s

\* mutant: the motor timeout tests isFiring where it should test motorsRunning
MotorTimeoutDue_WrongFlag(s, now) ==
    ~s.continuousMode /\ s.isFiring
        /\ Elapsed(now, s.motorStartTime) > MOTOR_RUN_TIME

\* mutant: the motor timeout is not limited to single-fire mode
MotorTimeoutDue_AnyMode(s, now) ==
    s.motorsRunning /\ Elapsed(now, s.motorStartTime) > MOTOR_RUN_TIME

MotorTimeoutDue(s, now) ==
    ~s.continuousMode /\ s.motorsRunning
        /\ Elapsed(now, s.motorStartTime) > MOTOR_RUN_TIME

\* mutant: the automatic stop clears the flag and leaves the motor pins driven
MotorTimeoutCheck_FlagOnly(s, now) ==
    IF MotorTimeoutDue(s, now)
    THEN [s EXCEPT !.motorsRunning = FALSE]
    ELSE s

MotorTimeoutCheck(s, now) ==
    IF MotorTimeoutDue(s, now)
    THEN [stopMotors(s) EXCEPT !.motorsRunning = FALSE]
    ELSE s

\* mutant: the three checks form an else-if chain, so at most one acts per pass
loopTimers_ElseIf(s, now) ==
    IF FireDue(s, now) THEN ContinuousFireCheck(s, now)
    ELSE IF ReleaseDue(s, now) THEN TriggerReleaseCheck(s, now)
    ELSE MotorTimeoutCheck(s, now)

\* lines 121-135 in order; the millis() calls of one pass read the same value now
loopTimers(s, now) ==
    MotorTimeoutCheck(TriggerReleaseCheck(ContinuousFireCheck(s, now), now), now)

\* ------------------------------------------------------------ initial state: after setup()
AfterSetup ==
    /\ pc = "handleClient"
    /\ motorsRunning = FALSE
    /\ motorStartTime = 0
    /\ continuousMode = FALSE
    /\ isFiring = FALSE
    /\ lastFireTime = 0
    /\ triggerPressStartTime = 0
    /\ triggerPressed = FALSE
    /\ servo = REST_ANGLE
    /\ pins = <<"LOW", "LOW", "LOW", "LOW">>
    /\ req = "none"
    /\ sent = <<>>
    /\ lastCmd = "none"
    /\ before = Flags
    /\ contPulse = FALSE

Init ==
    /\ AfterSetup
    /\ clock = 0
    /\ uptime = 0
    /\ armed = [motor |-> 0, fire |-> 0, trigger |-> 0]

\* the sketch has idled since setup() and millis() is about to wrap around
InitWrap ==
    /\ AfterSetup
    /\ clock = ClockModulus - WrapLead
    /\ uptime = 0
    /\ armed = [motor |-> WrapLead - ClockModulus, fire |-> WrapLead - ClockModulus,
                trigger |-> WrapLead - ClockModulus]

\* ------------------------------------------------------------ steps of loop()
\* entering handleClient d ms after the previous iteration's timer checks
Enter(d) ==
    /\ pc = "handleClient"
    /\ uptime + d <= MaxTime
    /\ uptime' = uptime + d
    /\ clock' = (clock + d) % ClockModulus
    /\ pc' = "timers"

Dispatch(cmd) ==
    /\ req' = cmd
    /\ lastCmd' = cmd
    /\ before' = Flags

\* handleClient with no request pending
ClientIdle(d) ==
    /\ Enter(d)
    /\ UNCHANGED <<ctlvars, req, sent, lastCmd, before, contPulse, armed>>

\* GET /: the control page; no command reaches the controller
ClientRoot(d) ==
    /\ Enter(d)
    /\ SetCtl(handleRoot([Ctl EXCEPT !.sent = <<>>]))
    /\ req' = "root"
    /\ UNCHANGED <<lastCmd, before, contPulse, armed>>

\* GET /fire
ClientFire(d) ==
    /\ Enter(d)
    /\ SetCtl(handleFire([Ctl EXCEPT !.sent = <<>>], clock'))
    /\ Dispatch("fire")
    /\ contPulse' = continuousMode
    /\ armed' = [armed EXCEPT !.motor = uptime', !.trigger = uptime']

\* GET /continuous, with or without the mode argument
ClientContinuous(d, hasArg, mode) ==
    /\ Enter(d)
    /\ SetCtl(handleContinuous([Ctl EXCEPT !.sent = <<>>], clock', hasArg, mode))
    /\ Dispatch(IF ~hasArg THEN "missing"
                ELSE IF mode \in {"start", "stop"} THEN mode ELSE "badmode")
    /\ contPulse' = (contPulse /\ continuousMode /\ continuousMode')
    /\ armed' = IF hasArg /\ mode = "start"
                THEN [armed EXCEPT !.motor = uptime', !.fire = uptime']
                ELSE armed

\* GET /stop
ClientStop(d) ==
    /\ Enter(d)
    /\ SetCtl(handleStop([Ctl EXCEPT !.sent = <<>>]))
    /\ Dispatch("estop")
    /\ contPulse' = FALSE
    /\ armed' = armed

\* the three timer checks that follow handleClient
LoopTimers ==
    /\ pc = "timers"
    /\ pc' = "handleClient"
    /\ SetCtl([loopTimers(Ctl, clock) EXCEPT !.sent = <<>>])
    /\ req' = "none"
    /\ contPulse' = (contPulse \/ FireDue(Ctl, clock))
    /\ armed' = IF FireDue(Ctl, clock)
                THEN [armed EXCEPT !.fire = uptime, !.trigger = uptime]
                ELSE armed
    /\ UNCHANGED <<clock, uptime, lastCmd, before>>

Next ==
    \/ \E d \in Steps : ClientIdle(d)
    \/ \E d \in Steps : ClientRoot(d)
    \/ \E d \in Steps : ClientFire(d)
    \/ \E d \in Steps, hasArg \in BOOLEAN, mode \in Modes : ClientContinuous(d, hasArg, mode)
    \/ \E d \in Steps : ClientStop(d)
    \/ LoopTimers

Spec == Init /\ [][Next]_vars

SpecWrap == InitWrap /\ [][Next]_vars

TypeOK ==
    /\ clock \in 0..(ClockModulus - 1)
    /\ uptime \in 0..MaxTime
    /\ pc \in {"handleClient", "timers"}
    /\ motorsRunning \in BOOLEAN /\ continuousMode \in BOOLEAN
    /\ isFiring \in BOOLEAN /\ triggerPressed \in BOOLEAN
    /\ motorStartTime \in 0..(ClockModulus - 1)
    /\ lastFireTime \in 0..(ClockModulus - 1)
    /\ triggerPressStartTime \in 0..(ClockModulus - 1)
    /\ servo \in {REST_ANGLE, FIRE_ANGLE}
    /\ Len(sent) <= 1

\* ------------------------------------------------------------ vocabulary of the properties
MotorsOn == pins = <<"HIGH", "LOW", "HIGH", "LOW">>
MotorsOff == pins = <<"LOW", "LOW", "LOW", "LOW">>

\* the rest state: Idle, motors off, trigger released
AtRest ==
    /\ ~continuousMode /\ ~isFiring
    /\ ~motorsRunning /\ MotorsOff
    /\ ~triggerPressed /\ servo = REST_ANGLE

\* this step is handleClient dispatching the request cmd
Handles(cmd) == pc' = "timers" /\ req' = cmd

\* this step is the timer checks of loop()
Ticks == pc = "timers" /\ pc' = "handleClient"

\* this step executes fireSingleShot()
PulseStart == Handles("fire") \/ (Ticks /\ FireDue(Ctl, clock))

\* this step starts no trigger pulse
NoPulseStart ==
    /\ triggerPressStartTime' = triggerPressStartTime
    /\ triggerPressed' => triggerPressed
    /\ servo' = FIRE_ANGLE => servo = FIRE_ANGLE

\* ------------------------------------------------------------ C1
\* C1 as stated: once a loop tick has run more than MOTOR_RUN_TIME after the last
\* command, a FireSingle, the motors are stopped, whatever commands preceded it.
C1_FailSafeAnyHistory ==
    (pc = "handleClient" /\ lastCmd = "fire"
        /\ Elapsed(clock, motorStartTime) > MOTOR_RUN_TIME)
    => (~motorsRunning /\ MotorsOff)

\* C1 amended: when the last command is a FireSingle that was processed outside
\* Continuous mode, the motors are stopped once a loop tick has run more than
\* MOTOR_RUN_TIME after the shot.
C1_FailSafe ==
    (pc = "handleClient" /\ lastCmd = "fire" /\ ~before.continuousMode
        /\ Elapsed(clock, motorStartTime) > MOTOR_RUN_TIME)
    => (~motorsRunning /\ MotorsOff)

C1_Witness ==
    /\ pc = "handleClient" /\ lastCmd = "fire" /\ ~before.continuousMode
    /\ Elapsed(clock, motorStartTime) > MOTOR_RUN_TIME
    /\ motorStartTime > 0
    /\ ~motorsRunning /\ MotorsOff

\* ------------------------------------------------------------ C2
\* C2: ContinuousStart turns the motors on, and once they are on in Continuous
\* mode every step keeps them on and the mode Continuous, unless the step
\* processes ContinuousStop or EmergencyStop.
C2_ContinuousPersistence ==
    /\ [][Handles("start") => (continuousMode' /\ motorsRunning' /\ MotorsOn')]_vars
    /\ [][(continuousMode /\ motorsRunning /\ MotorsOn
            /\ ~Handles("stop") /\ ~Handles("estop"))
          => (continuousMode' /\ motorsRunning' /\ MotorsOn')]_vars

C2_Witness ==
    /\ pc = "handleClient" /\ lastCmd = "fire" /\ before.continuousMode
    /\ continuousMode /\ motorsRunning /\ MotorsOn
    /\ Elapsed(clock, motorStartTime) > MOTOR_RUN_TIME

\* ------------------------------------------------------------ C3
\* C3: fireSingleShot is never executed while triggerPressed is already true.
C3_SinglePulse == [][PulseStart => ~triggerPressed]_vars

\* ------------------------------------------------------------ C4
\* C4: EmergencyStop always ends in the rest state, and processed in the rest
\* state it changes nothing.
C4_IdempotentStop ==
    [][Handles("estop") => (AtRest' /\ (AtRest => UNCHANGED ctlvars))]_vars

C4_Witness ==
    /\ pc = "timers" /\ req = "estop" /\ AtRest
    /\ ~before.continuousMode /\ ~before.motorsRunning /\ ~before.triggerPressed
    /\ motorStartTime > 0

\* ------------------------------------------------------------ C5
\* C5: in Continuous mode a trigger pulse starts no sooner than FIRE_INTERVAL
\* after the previous pulse of that mode.
C5_Cadence ==
    [][(PulseStart /\ continuousMode /\ contPulse)
       => Elapsed(clock', triggerPressStartTime) >= FIRE_INTERVAL]_vars

\* ------------------------------------------------------------ C6
\* C6 as stated: after ContinuousStart at time t a pulse has been started at t
\* by the end of the iteration that processed the command.
C6_ShotAtStart ==
    (pc = "handleClient" /\ lastCmd = "start" /\ clock = motorStartTime)
    => (triggerPressed /\ triggerPressStartTime = motorStartTime)

\* C6 amended: ContinuousStart itself starts no pulse; while it is the last
\* command, a loop tick starts a pulse exactly when more than FIRE_INTERVAL has
\* passed since the start command or the previous pulse.
C6_StartCadence ==
    /\ [][Handles("start") => NoPulseStart]_vars
    /\ [][(Ticks /\ lastCmd = "start")
          => IF Elapsed(clock, lastFireTime) > FIRE_INTERVAL
             THEN /\ triggerPressed' /\ servo' = FIRE_ANGLE
                  /\ triggerPressStartTime' = clock
                  /\ lastFireTime' = clock
             ELSE NoPulseStart /\ lastFireTime' = lastFireTime]_vars

C6_Witness ==
    /\ pc = "handleClient" /\ lastCmd = "start" /\ ~before.continuousMode
    /\ continuousMode /\ triggerPressed
    /\ triggerPressStartTime = lastFireTime
    /\ Elapsed(lastFireTime, motorStartTime) > 2 * FIRE_INTERVAL

\* ------------------------------------------------------------ C7
\* C7: ContinuousStop turns the motors off and clears the mode in the same step,
\* and while it is the last command no loop tick starts a trigger pulse.
C7_ContinuousStop ==
    /\ [][Handles("stop")
          => (~continuousMode' /\ ~isFiring' /\ ~motorsRunning' /\ MotorsOff')]_vars
    /\ [][(Ticks /\ lastCmd = "stop")
          => (NoPulseStart /\ lastFireTime' = lastFireTime)]_vars

C7_Witness ==
    /\ pc = "handleClient" /\ lastCmd = "stop" /\ before.continuousMode
    /\ lastFireTime > 0
    /\ Elapsed(clock, lastFireTime) > FIRE_INTERVAL
    /\ ~motorsRunning /\ MotorsOff

\* ------------------------------------------------------------ C8
\* C8: EmergencyStop releases the trigger and stops the motors in the same step,
\* and while it is the last command a loop tick changes nothing.
C8_StopCancelsTimers ==
    /\ [][Handles("estop")
          => (~triggerPressed' /\ servo' = REST_ANGLE
              /\ ~motorsRunning' /\ MotorsOff')]_vars
    /\ [][(Ticks /\ lastCmd = "estop") => UNCHANGED ctlvars]_vars

C8_Witness ==
    /\ pc = "handleClient" /\ lastCmd = "estop"
    /\ before.triggerPressed /\ before.continuousMode /\ before.motorsRunning
    /\ Elapsed(clock, triggerPressStartTime) > TRIGGER_PRESS_TIME
    /\ Elapsed(clock, lastFireTime) > FIRE_INTERVAL
    /\ AtRest

\* ------------------------------------------------------------ C9
\* C9: a /continuous request without the mode argument is answered with
\* 400 "Missing mode parameter" and changes no controller state.
C9_MissingMode ==
    [][Handles("missing")
       => (UNCHANGED ctlvars /\ sent' = << <<400, "text/plain", "Missing mode parameter">> >>)]_vars

C9_Witness ==
    /\ pc = "timers" /\ req = "missing"
    /\ continuousMode /\ motorsRunning /\ triggerPressed
    /\ sent = << <<400, "text/plain", "Missing mode parameter">> >>

\* ------------------------------------------------------------ C10
\* C10: every request handled by handleFire, handleContinuous or handleStop is
\* answered with exactly one response, the one of its command.
C10_OneResponse ==
    (pc = "timers" /\ req \notin {"none", "root"})
    => /\ Len(sent) = 1
       /\ sent[1][3] \in
            CASE req = "fire" -> {"SINGLE FIRE!"}
              [] req = "estop" -> {"STOPPED"}
              [] OTHER -> {"CONTINUOUS FIRE STARTED", "CONTINUOUS FIRE STOPPED",
                           "Missing mode parameter"}
\* ------------------------------------------------------------ C11
\* C11 (I1): the motor pins are driven exactly when motorsRunning is true, and
\* continuousMode implies motorsRunning.
C11_MotorsFollowMode ==
    /\ motorsRunning => MotorsOn
    /\ ~motorsRunning => MotorsOff
    /\ continuousMode => motorsRunning

C11_Witness ==
    /\ pc = "handleClient" /\ lastCmd = "fire" /\ ~continuousMode
    /\ before.motorsRunning
    /\ ~motorsRunning /\ MotorsOff
\* ------------------------------------------------------------ C12
Exceeds(e, duration) == e > duration
Reaches(e, duration) == e >= duration

\* what a pass of the timer checks does when "elapsed" means Cmp(now - reference, duration)
TimersActWhen(Cmp(_, _)) ==
    LET shot == continuousMode /\ isFiring
                    /\ Cmp(Elapsed(clock, lastFireTime), FIRE_INTERVAL)
    IN  /\ (lastFireTime' # lastFireTime) <=> shot
        /\ (triggerPressed /\ ~triggerPressed')
               <=> (triggerPressed /\ ~shot
                    /\ Cmp(Elapsed(clock, triggerPressStartTime), TRIGGER_PRESS_TIME))
        /\ (motorsRunning /\ ~motorsRunning')
               <=> (~continuousMode /\ motorsRunning
                    /\ Cmp(Elapsed(clock, motorStartTime), MOTOR_RUN_TIME))

\* C12 as stated: each timer check of loop acts exactly when
\* now - reference >= duration.
C12_ThresholdAtLeast == [][Ticks => TimersActWhen(Reaches)]_vars

\* C12 amended: each timer check of loop acts exactly when
\* now - reference > duration; a tick at exactly the duration does nothing.
C12_ThresholdExceeded == [][Ticks => TimersActWhen(Exceeds)]_vars

C12_Witness ==
    /\ pc = "handleClient" /\ lastCmd = "fire"
    /\ triggerPressed /\ servo = FIRE_ANGLE
    /\ Elapsed(clock, triggerPressStartTime) = TRIGGER_PRESS_TIME
\* ------------------------------------------------------------ C13
\* C13 (I3): in SingleShot mode a loop tick that runs more than MOTOR_RUN_TIME
\* after the shot stops the motors and leaves the mode Idle, whatever the state
\* of the trigger.
C13_SingleShotTimeout ==
    [][(Ticks /\ motorsRunning /\ ~continuousMode
          /\ uptime - armed.trigger > MOTOR_RUN_TIME)
       => (~motorsRunning' /\ MotorsOff' /\ ~continuousMode')]_vars

C13_Witness ==
    /\ pc = "handleClient" /\ lastCmd = "fire"
    /\ ~before.continuousMode /\ before.triggerPressed
    /\ uptime - armed.trigger > MOTOR_RUN_TIME
    /\ ~motorsRunning /\ MotorsOff /\ ~continuousMode /\ ~triggerPressed
\* ------------------------------------------------------------ C14
Idle == ~continuousMode /\ ~motorsRunning

\* C14: ContinuousStop processed in Idle changes no state variable and leaves
\* the motors off, and a loop tick in Idle starts no trigger pulse even when the
\* fire interval has elapsed.
C14_RedundantStop ==
    /\ [][(Handles("stop") /\ Idle) => (UNCHANGED ctlvars /\ MotorsOff')]_vars
    /\ [][(Ticks /\ Idle /\ Elapsed(clock, lastFireTime) > FIRE_INTERVAL)
          => (NoPulseStart /\ lastFireTime' = lastFireTime)]_vars

C14_Witness ==
    /\ pc = "timers" /\ req = "stop"
    /\ ~before.continuousMode /\ ~before.motorsRunning
    /\ Idle /\ MotorsOff
    /\ lastFireTime # 0
    /\ Elapsed(clock, lastFireTime) > FIRE_INTERVAL
\* ------------------------------------------------------------ C15
\* C15: ContinuousStart processed in Continuous mode leaves lastFireTime
\* unchanged, so it cannot postpone the next trigger pulse.
C15_RedundantStart ==
    [][(Handles("start") /\ continuousMode) => lastFireTime' = lastFireTime]_vars
\* ------------------------------------------------------------ C16
\* C16: a timer that has elapsed when the timer checks begin is still found
\* elapsed when its own check is reached, so its action is carried out in that
\* pass even when an earlier check has fired.
C16_TickOrdering ==
    pc = "timers" =>
        /\ ReleaseDue(Ctl, clock)
              => ReleaseDue(ContinuousFireCheck(Ctl, clock), clock)
        /\ MotorTimeoutDue(Ctl, clock)
              => MotorTimeoutDue(
                     TriggerReleaseCheck(ContinuousFireCheck(Ctl, clock), clock), clock)
\* ------------------------------------------------------------ C17
\* C17: a loop tick that runs more than TRIGGER_PRESS_TIME after the start of
\* the pulse in progress releases the trigger, in every fire mode.
C17_AutoRelease ==
    [][(Ticks /\ triggerPressed /\ uptime - armed.trigger > TRIGGER_PRESS_TIME)
       => (~triggerPressed' /\ servo' = REST_ANGLE)]_vars
\* ------------------------------------------------------------ C18
\* the subtraction of loop gives the time that has really passed since the
\* reference was set at uptime armedAt, unless a whole clock period has passed
WrapSafe(ref, armedAt) ==
    (uptime - armedAt < ClockModulus) => Elapsed(clock, ref) = uptime - armedAt

\* C18: for each of the three timers millis() - reference is the true elapsed
\* time, also when millis() has wrapped around since the reference was set.
C18_WrapSafe ==
    /\ WrapSafe(motorStartTime, armed.motor)
    /\ WrapSafe(lastFireTime, armed.fire)
    /\ WrapSafe(triggerPressStartTime, armed.trigger)

C18_Witness ==
    /\ pc = "handleClient" /\ lastCmd = "fire" /\ ~continuousMode
    /\ clock < motorStartTime
    /\ uptime - armed.motor > MOTOR_RUN_TIME
    /\ ~motorsRunning /\ ~triggerPressed
\* ------------------------------------------------------------ C19
\* C19: ContinuousStop changes neither triggerPressed nor triggerPressStartTime
\* nor the servo angle; while it is the last command, a pressed trigger stays
\* pressed until a loop tick runs more than TRIGGER_PRESS_TIME after the pulse
\* began, and that tick releases it.
C19_StopLeavesTrigger ==
    /\ [][Handles("stop")
          => UNCHANGED <<triggerPressed, triggerPressStartTime, servo>>]_vars
    /\ [][(Ticks /\ lastCmd = "stop" /\ triggerPressed)
          => IF uptime - armed.trigger > TRIGGER_PRESS_TIME
             THEN ~triggerPressed' /\ servo' = REST_ANGLE
             ELSE triggerPressed' /\ servo' = FIRE_ANGLE]_vars

C19_Witness ==
    /\ pc = "handleClient" /\ lastCmd = "stop"
    /\ before.triggerPressed /\ before.continuousMode
    /\ ~triggerPressed /\ servo = REST_ANGLE
    /\ uptime - armed.trigger > TRIGGER_PRESS_TIME
\* ------------------------------------------------------------ C20
\* C20: a loop tick stops running motors only when more than MOTOR_RUN_TIME has
\* passed since the most recent command that started them.
C20_NoPrematureStop ==
    [][(Ticks /\ motorsRunning /\ ~motorsRunning')
       => uptime - armed.motor > MOTOR_RUN_TIME]_vars

C20_Witness ==
    /\ pc = "handleClient" /\ lastCmd = "fire"
    /\ lastFireTime # 0 /\ armed.motor > 0
    /\ uptime - armed.motor > MOTOR_RUN_TIME
    /\ ~motorsRunning /\ MotorsOff
====
